---- MODULE Spec2Model ----
(***************************************************************************)
(* Model of src/src/states.rs: the main menu state, the switch to the      *)
(* tower-defence state, and TowerDefState::load_map with its three stages: *)
(* the tile classifier, the grid builder and the path enumerator           *)
(* gather_paths.                                                           *)
(*                                                                         *)
(* Coordinates are 0-based as in the source.  An Option<T> is a sequence   *)
(* of length 0 (None) or 1 (Some).  A Rust panic (unwrap on None, a failed *)
(* assert!, an index out of range) moves the program to pc = "panicked"    *)
(* with the world left as it was at the panicking line.                    *)
(***************************************************************************)
EXTENDS Integers, Sequences, FiniteSets, TLC

VARIABLES
    pc,                  \* position of the program
    game_state,          \* the GameState resource of the world
    levels,              \* MainMenuState.levels: the level buttons that exist
    camera,              \* whether initialise_camera has created the camera
    tileset,             \* map.tilesets[0].tiles, in the order of the file
    width, height,       \* map.width, map.height
    layers,              \* map.layers; layers[1] is the first layer of the file
    roads,               \* load_map: roads (Vec of tile ids)
    directions,          \* load_map: directions (HashMap tile id -> mask)
    construction_points, \* load_map: construction_points
    start_point,         \* load_map: start_point (Option of tile id)
    end_point,           \* load_map: end_point
    road_map,            \* load_map: road_map, road_map[x][y]
    start_coord,         \* load_map: start_coord (Option of Coord)
    end_coord,           \* load_map: end_coord
    tile_entities,       \* number of tile entities built in the world
    paths,               \* Option of the result of gather_paths
    map_entity,          \* whether the Map entity has been built
    panic                \* which panic stopped the program, "" when none

vars == <<pc, game_state, levels, camera, tileset, width, height, layers,
          roads, directions, construction_points, start_point, end_point,
          road_map, start_coord, end_coord, tile_entities, paths, map_entity,
          panic>>

-----------------------------------------------------------------------------
(* Bounds of the model *)

\* at most MaxPlaced cells of a map, over all layers, are not empty
MaxPlaced == 3
\* the assets directory holds at most MaxLevels .tmx files
MaxLevels == 2
\* the grids given to gather_paths alone have at most MaxBits direction bits set
MaxBits == 7
\* the <<width, height>> of the maps, and the numbers of layers they have
MapSizes == {<<1, 1>>, <<2, 1>>, <<1, 2>>, <<2, 2>>}
LayerCounts == {0, 1, 2}
\* the <<width, height>> of the grids given to gather_paths alone
GridSizes == MapSizes \cup {<<3, 1>>, <<1, 3>>}

-----------------------------------------------------------------------------
(* Values *)

None == << >>
Some(v) == <<v>>
IsSome(o) == Len(o) = 1
Unwrap(o) == o[1]

Coord(x, y) == [x |-> x, y |-> y]

\* (m & bit) > 0 for a one-bit value bit
HasBit(m, bit) == (m \div bit) % 2 = 1

\* m | bit for a one-bit value bit
OrBit(m, bit) == IF HasBit(m, bit) THEN m ELSE m + bit

\* 0b1111, the mask of a start or end cell
FullMask == 15

\* the direction bits 0b0001, 0b0010, 0b0100, 0b1000
UpBit == 1
RightBit == 2
DownBit == 4
LeftBit == 8

-----------------------------------------------------------------------------
(* The tile classifier: load_map, lines 64-100 *)

\* the property keys load_map looks at
PropKeys == {"road", "construction-point", "start-point", "end-point",
             "up", "right", "down", "left"}

\* a property is absent, or BoolValue(true), or BoolValue(false), or a value
\* of another type
PropValues == {"absent", "true", "false", "string"}

\* tile.properties.contains_key(k)
ContainsKey(props, k) == props[k] # "absent"

\* let Some(BoolValue(true)) = tile.properties.get(k)
IsBoolTrue(props, k) == props[k] = "true"

\* OrIfTrue with any value of the key taken for true
OrIfTrue_AnyValue(dir, props, k, bit) ==
    IF ContainsKey(props, k) THEN OrBit(dir, bit) ELSE dir

\* one `if let ... { dir |= bit }`
OrIfTrue(dir, props, k, bit) == IF IsBoolTrue(props, k) THEN OrBit(dir, bit) ELSE dir

\* the mask of a road tile, lines 75-87
DirMask(props) ==
    LET d0 == 0
        d1 == OrIfTrue(d0, props, "up", UpBit)
        d2 == OrIfTrue(d1, props, "right", RightBit)
        d3 == OrIfTrue(d2, props, "down", DownBit)
        d4 == OrIfTrue(d3, props, "left", LeftBit)
    IN  d4

\* HashMap::insert
MapInsert(m, k, v) == [i \in DOMAIN m \cup {k} |-> IF i = k THEN v ELSE m[i]]

EmptyMap == [i \in {} |-> 0]

\* ClassInit with tile id 0 as the start tile until another one is found
ClassInit_DefaultStart ==
    [roads |-> << >>, directions |-> EmptyMap, construction_points |-> << >>,
     start_point |-> Some(0), end_point |-> None]

\* the classifier's locals before the loop, lines 65-71
ClassInit ==
    [roads |-> << >>, directions |-> EmptyMap, construction_points |-> << >>,
     start_point |-> None, end_point |-> None]

\* the body of the loop over the tiles, lines 73-95
ClassifyTile(acc, tile) ==
    IF ContainsKey(tile.props, "road")
    THEN [acc EXCEPT !.roads = Append(@, tile.id),
                     !.directions = MapInsert(@, tile.id, DirMask(tile.props))]
    ELSE IF ContainsKey(tile.props, "construction-point")
    THEN [acc EXCEPT !.construction_points = Append(@, tile.id)]
    ELSE IF ContainsKey(tile.props, "start-point")
    THEN [acc EXCEPT !.start_point = Some(tile.id)]
    ELSE IF ContainsKey(tile.props, "end-point")
    THEN [acc EXCEPT !.end_point = Some(tile.id)]
    ELSE acc

\* the loop of line 72 over the first n tiles
RECURSIVE ClassifyTiles(_, _)
ClassifyTiles(tiles, n) ==
    IF n = 0 THEN ClassInit
    ELSE ClassifyTile(ClassifyTiles(tiles, n - 1), tiles[n])

-----------------------------------------------------------------------------
(* slice::binary_search, used at lines 116 and 153.  On a slice that is not *)
(* sorted the result is unspecified; the standard library has shipped two   *)
(* algorithms, and the build decides which one runs.                        *)

SearchImpls == {"halving", "bisect"}

\* the loop `while size > 1` of the halving search; s[i + 1] is the slice's s[i]
RECURSIVE HalvingBase(_, _, _, _)
HalvingBase(s, x, base, size) ==
    IF size > 1
    THEN LET half == size \div 2
             mid == base + half
         IN  HalvingBase(s, x, IF s[mid + 1] > x THEN base ELSE mid, size - half)
    ELSE base

HalvingIsOk(s, x) ==
    IF Len(s) = 0 THEN FALSE
    ELSE s[HalvingBase(s, x, 0, Len(s)) + 1] = x

\* the loop `while left < right` of the bisecting search
RECURSIVE BisectIsOk(_, _, _, _)
BisectIsOk(s, x, left, right) ==
    IF left < right
    THEN LET mid == left + ((right - left) \div 2)
         IN  IF s[mid + 1] < x THEN BisectIsOk(s, x, mid + 1, right)
             ELSE IF s[mid + 1] > x THEN BisectIsOk(s, x, left, mid)
             ELSE TRUE
    ELSE FALSE

\* s.binary_search(&x).is_ok()
BinarySearchIsOk(impl, s, x) ==
    IF impl = "halving" THEN HalvingIsOk(s, x) ELSE BisectIsOk(s, x, 0, Len(s))

-----------------------------------------------------------------------------
(* The grid builder: load_map, lines 103-161 *)

\* vec![vec![0; map.width]; map.height], line 103: `h` vectors of `w` entries
NewRoadMap(w, h) == [i \in 0 .. h - 1 |-> [j \in 0 .. w - 1 |-> 0]]

\* road_map[x][y] addresses an element
InRoadMap(rm, x, y) == x \in DOMAIN rm /\ y \in DOMAIN rm[x]

\* the builder's locals before the loops, lines 103-105
GridInit(w, h) ==
    [road_map |-> NewRoadMap(w, h), start_coord |-> None, end_coord |-> None,
     tile_entities |-> 0, panic |-> ""]

\* road_map[x][y] = m; an index out of range panics
WriteMask(st, x, y, m) ==
    IF InRoadMap(st.road_map, x, y)
    THEN [st EXCEPT !.road_map[x][y] = m]
    ELSE [st EXCEPT !.panic = "index out of bounds"]

\* lines 116-124: what the tile with id tile_id does to the grid at (x, y)
AssignCell(st, cls, impl, tile_id, x, y) ==
    IF BinarySearchIsOk(impl, cls.roads, tile_id)
    THEN WriteMask(st, x, y, cls.directions[tile_id])
    ELSE IF tile_id = Unwrap(cls.start_point)
    THEN WriteMask([st EXCEPT !.start_coord = Some(Coord(x, y))], x, y, FullMask)
    ELSE IF tile_id = Unwrap(cls.end_point)
    THEN WriteMask([st EXCEPT !.end_coord = Some(Coord(x, y))], x, y, FullMask)
    ELSE st

\* the body of the innermost loop, lines 110-158, for the cell holding gid
PlaceTile(st, cls, impl, gid, x, y) ==
    IF st.panic # "" \/ gid = 0 THEN st
    ELSE LET a == AssignCell(st, cls, impl, gid - 1, x, y)
         IN  IF a.panic # "" THEN a
             ELSE [a EXCEPT !.tile_entities = @ + 1]

\* the gid that the loops of lines 106-108 visit as their n-th cell (n from 0):
\* layers last to first, rows last to first (y = 0 is the last row), columns
\* first to last
VisitLayer(lays, w, h, n) == Len(lays) - (n \div (w * h))
VisitY(w, h, n) == (n % (w * h)) \div w
VisitX(w, h, n) == n % w
VisitGid(lays, w, h, n) ==
    lays[VisitLayer(lays, w, h, n)][h - VisitY(w, h, n)][VisitX(w, h, n) + 1]

\* the loops of lines 106-161 after their first n cells
RECURSIVE BuildCells(_, _, _, _, _, _)
BuildCells(lays, w, h, cls, impl, n) ==
    IF n = 0 THEN GridInit(w, h)
    ELSE PlaceTile(BuildCells(lays, w, h, cls, impl, n - 1), cls, impl,
                   VisitGid(lays, w, h, n - 1), VisitX(w, h, n - 1), VisitY(w, h, n - 1))

\* the grid builder as a whole
BuildGridResult(lays, w, h, cls, impl) ==
    BuildCells(lays, w, h, cls, impl, Len(lays) * w * h)

-----------------------------------------------------------------------------
(* The path enumerator: gather_paths, lines 234-276 *)

\* the static DIRECTIONS, lines 235-240: up, down, right, left
DIRECTIONS ==
    << [dx |-> 0,  dy |-> 1,  bit |-> UpBit],
       [dx |-> 0,  dy |-> -1, bit |-> DownBit],
       [dx |-> 1,  dy |-> 0,  bit |-> RightBit],
       [dx |-> -1, dy |-> 0,  bit |-> LeftBit] >>

\* path.contains(&c)
Contains(path, c) == \E i \in 1 .. Len(path) : path[i] = c

\* CanGo without the test of the mask of the origin
CanGo_IgnoresMask(map, origin, offset) ==
    LET nx == origin.x + offset.dx
        ny == origin.y + offset.dy
    IN  /\ nx >= 0
        /\ ny >= 0
        /\ nx < Cardinality(DOMAIN map)
        /\ ny < Cardinality(DOMAIN map[0])

\* the condition of lines 252-257 for one offset
CanGo(map, origin, offset) ==
    LET nx == origin.x + offset.dx
        ny == origin.y + offset.dy
    IN  /\ nx >= 0
        /\ ny >= 0
        /\ nx < Cardinality(DOMAIN map)
        /\ ny < Cardinality(DOMAIN map[0])
        /\ HasBit(map[origin.x][origin.y], offset.bit)

\* the loop of lines 249-265 over the first n offsets
RECURSIVE Neighbours(_, _, _)
Neighbours(path, map, n) ==
    IF n = 0 THEN << >>
    ELSE LET origin == path[Len(path)]
             offset == DIRECTIONS[n]
             new_coord == Coord(origin.x + offset.dx, origin.y + offset.dy)
             before == Neighbours(path, map, n - 1)
         IN  IF CanGo(map, origin, offset) /\ ~Contains(path, new_coord)
             THEN Append(before, new_coord)
             ELSE before

RECURSIVE gather_paths(_, _, _)
RECURSIVE ExtendPaths(_, _, _, _, _)

\* ExtendPaths with each neighbour's paths replacing those found before
ExtendPaths_Overwrite(path, dest, map, neighbours, n) ==
    IF n = 0 THEN << >>
    ELSE gather_paths(Append(path, neighbours[n]), dest, map)

\* the loop of lines 267-274 over the first n neighbours
ExtendPaths(path, dest, map, neighbours, n) ==
    IF n = 0 THEN << >>
    ELSE LET new_path == Append(path, neighbours[n])
             found == gather_paths(new_path, dest, map)
             before == ExtendPaths(path, dest, map, neighbours, n - 1)
         IN  IF Len(path) > 0 THEN before \o found ELSE before

gather_paths(path, dest, map) ==
    LET origin == path[Len(path)]
    IN  IF origin = dest THEN << path >>
        ELSE LET neighbours == Neighbours(path, map, Len(DIRECTIONS))
             IN  ExtendPaths(path, dest, map, neighbours, Len(neighbours))

-----------------------------------------------------------------------------
(* The inputs: the map files that tiled::parse can return *)

\* the subsets of S with at most k elements
RECURSIVE SubsetsUpTo(_, _)
SubsetsUpTo(S, k) ==
    IF k = 0 \/ S = {} THEN {{}}
    ELSE LET e == CHOOSE e \in S : TRUE
             rest == S \ {e}
         IN  SubsetsUpTo(rest, k) \cup {T \cup {e} : T \in SubsetsUpTo(rest, k - 1)}

\* properties with the given key/value pairs, every other key absent
Props(given) == [k \in PropKeys |-> IF k \in DOMAIN given THEN given[k] ELSE "absent"]

\* the tiles a tileset is made of: two roads, the start tile and the end tile
TileDefs ==
    { [id |-> 0, props |-> Props([road |-> "true", up |-> "true", right |-> "true"])],
      [id |-> 1, props |-> Props([road |-> "true", left |-> "true",
                                  down |-> "false", up |-> "string"])],
      [id |-> 2, props |-> Props([x \in {"start-point"} |-> "true"])],
      [id |-> 3, props |-> Props([x \in {"end-point"} |-> "true"])] }

\* the tile ids of a tileset are distinct
DistinctIds(tiles) ==
    \A i, j \in 1 .. Len(tiles) : tiles[i].id = tiles[j].id => i = j

\* the ids of a tileset ascend, or they descend
Ascending(tiles) == \A i \in 1 .. Len(tiles) - 1 : tiles[i].id < tiles[i + 1].id
Descending(tiles) == \A i \in 1 .. Len(tiles) - 1 : tiles[i].id > tiles[i + 1].id

\* a tileset lists any of the tiles, by ascending or by descending id
Tilesets ==
    {t \in UNION {[1 .. n -> TileDefs] : n \in 0 .. Cardinality(TileDefs)} :
        DistinctIds(t) /\ (Ascending(t) \/ Descending(t))}

\* the gids a layer cell can hold besides 0: tile id + 1
Gids == {t.id + 1 : t \in TileDefs}

\* the cells of n layers of a w by h map: <<layer, row, column>>
Positions(w, h, n) == (1 .. n) \X (1 .. h) \X (1 .. w)

\* the layers in which exactly the cells of `placed` are not empty
LayersOf(w, h, n, placed, gid) ==
    [l \in 1 .. n |-> [r \in 1 .. h |-> [c \in 1 .. w |->
        IF <<l, r, c>> \in placed THEN gid[<<l, r, c>>] ELSE 0]]]

\* the sets of cells of n layers of a w by h map that are not empty
Placements(w, h, n) == SubsetsUpTo(Positions(w, h, n), MaxPlaced)

-----------------------------------------------------------------------------
(* The program *)

\* MainMenuState::new() and the default GameState, lines 24-28 and 284-288
Init ==
    /\ pc = "boot"
    /\ game_state = "MainMenu"
    /\ levels = {}
    /\ camera = FALSE
    /\ tileset = << >>
    /\ width = 0
    /\ height = 0
    /\ layers = << >>
    /\ roads = << >>
    /\ directions = EmptyMap
    /\ construction_points = << >>
    /\ start_point = None
    /\ end_point = None
    /\ road_map = EmptyMap
    /\ start_coord = None
    /\ end_coord = None
    /\ tile_entities = 0
    /\ paths = None
    /\ map_entity = FALSE
    /\ panic = ""

\* MainMenuState::on_start, lines 292-327: one button per .tmx file
MenuOnStart ==
    /\ pc = "boot"
    /\ \E n \in 0 .. MaxLevels : levels' = 1 .. n
    /\ pc' = "menu"
    /\ UNCHANGED <<game_state, camera, tileset, width, height, layers, roads,
                   directions, construction_points, start_point, end_point,
                   road_map, start_coord, end_coord, tile_entities, paths,
                   map_entity, panic>>

\* MainMenuState::handle_event for a window event, lines 337-345
HandleWindowEvent ==
    /\ pc = "menu"
    /\ game_state' = "MainMenu"
    /\ \E quit \in BOOLEAN : pc' = IF quit THEN "quit" ELSE "menu"
    /\ UNCHANGED <<levels, camera, tileset, width, height, layers, roads,
                   directions, construction_points, start_point, end_point,
                   road_map, start_coord, end_coord, tile_entities, paths,
                   map_entity, panic>>

\* MainMenuState::handle_event for a click on a level button, lines 337 and
\* 346-359: the buttons are deleted and the state switches
HandleClick ==
    /\ pc = "menu"
    /\ \E target \in levels :
          /\ game_state' = "MainMenu"
          /\ levels' = {}
          /\ pc' = "switch"
    /\ UNCHANGED <<camera, tileset, width, height, layers, roads,
                   directions, construction_points, start_point, end_point,
                   road_map, start_coord, end_coord, tile_entities, paths,
                   map_entity, panic>>

\* TowerDefState::on_start, lines 226-229, and the start of load_map, lines
\* 55-59: the file is opened and parsed and the camera is created from the
\* size of the map.  The tileset and the layers of the parsed map are drawn
\* where load_map first reads them.
OnStart ==
    /\ pc = "switch"
    /\ game_state' = "Game"
    /\ \E readable \in BOOLEAN :
          IF readable
          THEN \E wh \in MapSizes :
                  /\ width' = wh[1]
                  /\ height' = wh[2]
                  /\ camera' = TRUE
                  /\ pc' = "classify"
                  /\ panic' = panic
          ELSE /\ pc' = "panicked"
               /\ panic' = "map file"
               /\ UNCHANGED <<width, height, camera>>
    /\ UNCHANGED <<levels, tileset, layers, roads, directions,
                   construction_points, start_point, end_point, road_map,
                   start_coord, end_coord, tile_entities, paths, map_entity>>

\* the classifier and its two asserts on the tiles `tiles`
ClassifyWith(tiles) ==
    LET cls == ClassifyTiles(tiles, Len(tiles))
    IN  /\ tileset' = tiles
        /\ roads' = cls.roads
        /\ directions' = cls.directions
        /\ construction_points' = cls.construction_points
        /\ start_point' = cls.start_point
        /\ end_point' = cls.end_point
        /\ IF ~IsSome(cls.start_point)
           THEN pc' = "panicked" /\ panic' = "No tile defined as starting point!"
           ELSE IF ~IsSome(cls.end_point)
           THEN pc' = "panicked" /\ panic' = "No tile defined as end point!"
           ELSE pc' = "build" /\ panic' = panic
        /\ UNCHANGED <<game_state, levels, camera, width, height, layers,
                       road_map, start_coord, end_coord, tile_entities, paths,
                       map_entity>>

\* load_map, lines 64-100
Classify ==
    /\ pc = "classify"
    /\ \E tiles \in Tilesets : ClassifyWith(tiles)

\* the classifier's locals, as the grid builder reads them
Classified ==
    [roads |-> roads, directions |-> directions,
     construction_points |-> construction_points,
     start_point |-> start_point, end_point |-> end_point]

\* the grid builder on the layers lays
BuildGridWith(lays) ==
    \E impl \in SearchImpls :
        \E built \in {BuildGridResult(lays, width, height, Classified, impl)} :
            /\ layers' = lays
            /\ road_map' = built.road_map
            /\ start_coord' = built.start_coord
            /\ end_coord' = built.end_coord
            /\ tile_entities' = built.tile_entities
            /\ panic' = built.panic
            /\ pc' = IF built.panic # "" THEN "panicked" ELSE "gather"
            /\ UNCHANGED <<game_state, levels, camera, tileset, width, height,
                           roads, directions, construction_points, start_point,
                           end_point, paths, map_entity>>

\* load_map, lines 101-161: the grid builder, on any layers of the map's size
BuildGrid ==
    /\ pc = "build"
    /\ \E n \in LayerCounts :
          \E placed \in Placements(width, height, n) :
              \E gid \in [placed -> Gids] :
                  BuildGridWith(LayersOf(width, height, n, placed, gid))

\* load_map, line 162: the two unwraps and the call of gather_paths
GatherPaths ==
    /\ pc = "gather"
    /\ IF ~IsSome(start_coord) \/ ~IsSome(end_coord)
       THEN /\ pc' = "panicked"
            /\ panic' = "unwrap on None"
            /\ paths' = paths
       ELSE /\ paths' = Some(gather_paths(<<Unwrap(start_coord)>>,
                                          Unwrap(end_coord), road_map))
            /\ pc' = "create"
            /\ panic' = panic
    /\ UNCHANGED <<game_state, levels, camera, tileset, width, height, layers,
                   roads, directions, construction_points, start_point,
                   end_point, road_map, start_coord, end_coord, tile_entities,
                   map_entity>>

\* load_map, lines 164-221: the texts and the Map entity holding the paths
CreateMap ==
    /\ pc = "create"
    /\ map_entity' = TRUE
    /\ pc' = "game"
    /\ UNCHANGED <<game_state, levels, camera, tileset, width, height, layers,
                   roads, directions, construction_points, start_point,
                   end_point, road_map, start_coord, end_coord, tile_entities,
                   paths, panic>>

Next ==
    \/ MenuOnStart
    \/ HandleWindowEvent
    \/ HandleClick
    \/ OnStart
    \/ Classify
    \/ BuildGrid
    \/ GatherPaths
    \/ CreateMap

Spec == Init /\ [][Next]_vars

-----------------------------------------------------------------------------
(* gather_paths alone: the program at line 162 with any grid of masks, any  *)
(* start and any destination of the grid                                    *)

\* the direction bits of an h by w grid: <<x, y, bit>>
BitPositions(w, h) == (0 .. h - 1) \X (0 .. w - 1) \X {UpBit, RightBit, DownBit, LeftBit}

BitIn(bits, x, y, bit) == IF <<x, y, bit>> \in bits THEN bit ELSE 0

\* the grid in which exactly the direction bits of `bits` are set
MaskGrid(w, h, bits) ==
    [x \in 0 .. h - 1 |-> [y \in 0 .. w - 1 |->
        BitIn(bits, x, y, UpBit) + BitIn(bits, x, y, RightBit)
        + BitIn(bits, x, y, DownBit) + BitIn(bits, x, y, LeftBit)]]

\* the coordinates of the grid rm
CoordsOf(rm) == {Coord(x, y) : x \in DOMAIN rm, y \in DOMAIN rm[0]}

InitPaths ==
    /\ pc = "gather"
    /\ game_state = "Game"
    /\ levels = {}
    /\ camera = TRUE
    /\ tileset = << >>
    /\ layers = << >>
    /\ roads = << >>
    /\ directions = EmptyMap
    /\ construction_points = << >>
    /\ start_point = None
    /\ end_point = None
    /\ \E wh \in GridSizes :
          /\ width = wh[1]
          /\ height = wh[2]
          /\ \E bits \in SubsetsUpTo(BitPositions(wh[1], wh[2]), MaxBits) :
                road_map = MaskGrid(wh[1], wh[2], bits)
    /\ \E s \in CoordsOf(road_map) : start_coord = Some(s)
    /\ \E d \in CoordsOf(road_map) : end_coord = Some(d)
    /\ tile_entities = 0
    /\ paths = None
    /\ map_entity = FALSE
    /\ panic = ""

NextPaths ==
    \/ GatherPaths
    \/ CreateMap

SpecPaths == InitPaths /\ [][NextPaths]_vars

-----------------------------------------------------------------------------
(* The classifier alone: the program at line 64 with a tileset of one tile   *)
(* with any properties                                                       *)

\* a role key is absent or present; a direction flag has any value
TileProps ==
    {p \in [PropKeys -> PropValues] :
        \A k \in {"road", "construction-point", "start-point", "end-point"} :
            p[k] \in {"absent", "true"}}

InitMask ==
    /\ pc = "classify"
    /\ game_state = "Game"
    /\ levels = {}
    /\ camera = TRUE
    /\ \E p \in TileProps : tileset = << [id |-> 0, props |-> p] >>
    /\ width = 1
    /\ height = 1
    /\ layers = << >>
    /\ roads = << >>
    /\ directions = EmptyMap
    /\ construction_points = << >>
    /\ start_point = None
    /\ end_point = None
    /\ road_map = EmptyMap
    /\ start_coord = None
    /\ end_coord = None
    /\ tile_entities = 0
    /\ paths = None
    /\ map_entity = FALSE
    /\ panic = ""

\* load_map, lines 64-100, on the tileset of the state
ClassifyOne ==
    /\ pc = "classify"
    /\ ClassifyWith(tileset)

SpecMask == InitMask /\ [][ClassifyOne]_vars

-----------------------------------------------------------------------------
(* Properties of gather_paths *)

\* the result of gather_paths, as a set of paths
PathSet == {Unwrap(paths)[i] : i \in 1 .. Len(Unwrap(paths))}

\* the four moves: up is y + 1 and bit 0, right is x + 1 and bit 1, down is
\* y - 1 and bit 2, left is x - 1 and bit 3
Moves ==
    { [dx |-> 0, dy |-> 1, bit |-> 1], [dx |-> 1, dy |-> 0, bit |-> 2],
      [dx |-> 0, dy |-> -1, bit |-> 4], [dx |-> -1, dy |-> 0, bit |-> 8] }

\* from c one move, allowed by the mask of c, leads to n, and n is in the grid
LegalMove(rm, c, n) ==
    /\ n \in CoordsOf(rm)
    /\ \E m \in Moves :
          /\ n.x = c.x + m.dx
          /\ n.y = c.y + m.dy
          /\ (rm[c.x][c.y] \div m.bit) % 2 = 1

NoRepeat(p) == \A i, j \in 1 .. Len(p) : p[i] = p[j] => i = j

ValidPath(rm, s, d, p) ==
    /\ Len(p) >= 1
    /\ p[1] = s
    /\ p[Len(p)] = d
    /\ NoRepeat(p)
    /\ Len(p) <= Cardinality(CoordsOf(rm))
    /\ \A i \in 1 .. Len(p) - 1 : LegalMove(rm, p[i], p[i + 1])

\* C1: every path that gather_paths returns starts at the start, ends at the
\* destination, holds no coordinate twice (so it is no longer than the grid
\* has cells), and each of its steps is one move in a cardinal direction that
\* the mask of the step's source allows and that stays inside the grid.
C1_PathsValid ==
    IsSome(paths) =>
        \A p \in PathSet :
            ValidPath(road_map, Unwrap(start_coord), Unwrap(end_coord), p)

\* C1: gather_paths has returned a path that visits four cells
C1_Witness ==
    /\ IsSome(paths)
    /\ \E p \in PathSet : Len(p) = 4

\* the simple legal paths from s with n coordinates
RECURSIVE SimplePaths(_, _, _)
SimplePaths(rm, s, n) ==
    IF n = 1 THEN {<<s>>}
    ELSE {Append(p, c) : <<p, c>> \in
             {pc2 \in SimplePaths(rm, s, n - 1) \X CoordsOf(rm) :
                 /\ \A i \in 1 .. Len(pc2[1]) : pc2[1][i] # pc2[2]
                 /\ LegalMove(rm, pc2[1][Len(pc2[1])], pc2[2])}}

\* every simple legal path from s to d
SimplePathsTo(rm, s, d) ==
    {p \in UNION {SimplePaths(rm, s, n) : n \in 1 .. Cardinality(CoordsOf(rm))} :
        p[Len(p)] = d}

\* C2: gather_paths never fails, and it returns every simple path of legal
\* moves from the start to the destination, each exactly once, and nothing
\* else; it returns the empty list when there is none.
C2_Exhaustive ==
    /\ pc # "gather" => IsSome(paths) /\ panic = ""
    /\ IsSome(paths) =>
          /\ PathSet = SimplePathsTo(road_map, Unwrap(start_coord), Unwrap(end_coord))
          /\ NoRepeat(Unwrap(paths))

\* C2: gather_paths has returned two paths
C2_Witness ==
    /\ IsSome(paths)
    /\ Len(Unwrap(paths)) = 2
    /\ start_coord # end_coord

\* C8: with the maximum path count configured as 1, a map whose enumeration
\* finds more paths than that is not loaded.
C8_EnumerationBounded ==
    map_entity => Len(Unwrap(paths)) <= 1

-----------------------------------------------------------------------------
(* Properties of the classifier *)

BitIf(props, k, bit) == IF props[k] = "true" THEN bit ELSE 0

\* C7: the mask of a road tile has bit 0 set iff `up` is boolean true, bit 1
\* iff `right` is, bit 2 iff `down` is, bit 3 iff `left` is, and no other bit.
C7_MaskFromFlags ==
    pc # "classify" =>
        \A i \in 1 .. Len(tileset) :
            tileset[i].props["road"] # "absent" =>
                /\ tileset[i].id \in DOMAIN directions
                /\ directions[tileset[i].id] =
                      BitIf(tileset[i].props, "up", 1)
                      + BitIf(tileset[i].props, "right", 2)
                      + BitIf(tileset[i].props, "down", 4)
                      + BitIf(tileset[i].props, "left", 8)

\* C7: a road with up = true, right = false, down = true and no left has
\* been given the mask 0b0101
C7_Witness ==
    /\ pc # "classify"
    /\ Len(tileset) = 1
    /\ tileset[1].props["road"] = "true"
    /\ tileset[1].props["up"] = "true"
    /\ tileset[1].props["right"] = "false"
    /\ tileset[1].props["down"] = "true"
    /\ tileset[1].props["left"] = "absent"
    /\ directions[tileset[1].id] = 5

-----------------------------------------------------------------------------
(* Properties of the grid builder and of the load as a whole *)

\* the load has completed: the grid builder has replayed every layer, the
\* paths are gathered and the Map entity is built
Loaded == pc = "game"

\* the gid of layer l at the coordinate (x, y); y = 0 is the last row
GidAt(l, x, y) == layers[l][height - y][x + 1]

\* the ids that the classifier put in the road list
RoadIds == {roads[i] : i \in 1 .. Len(roads)}

\* layer l holds a road, start or end tile at (x, y)
Assigns(l, x, y) ==
    /\ GidAt(l, x, y) # 0
    /\ \/ GidAt(l, x, y) - 1 \in RoadIds
       \/ Some(GidAt(l, x, y) - 1) = start_point
       \/ Some(GidAt(l, x, y) - 1) = end_point

\* the mask that the tile of layer l at (x, y) stands for
MaskAt(l, x, y) ==
    IF GidAt(l, x, y) - 1 \in RoadIds THEN directions[GidAt(l, x, y) - 1] ELSE 15

\* the layers that hold a road, start or end tile at (x, y)
AssigningLayers(x, y) == {l \in 1 .. Len(layers) : Assigns(l, x, y)}

\* the largest and the smallest element of a set of numbers
Highest(S) == CHOOSE l \in S : \A k \in S : k <= l
Lowest(S) == CHOOSE l \in S : \A k \in S : l <= k

\* the coordinates of the map
MapCoords == (0 .. width - 1) \X (0 .. height - 1)

\* the tileset lists its tiles by ascending id, so that the road list is
\* sorted, and the map is square, so that road_map[x][y] addresses every cell
SortedTileset == Ascending(tileset)
SquareMap == width = height

\* C3: after the grid builder has replayed the layers of a map, the mask of a
\* cell is the one of the topmost layer (the last layer of the file) that
\* holds a road, start or end tile at that cell.  Stated for the maps that
\* load, are square and have a sorted tileset, where neither the indexing of
\* the grid nor the lookup of the roads interferes.
C3_TopmostWins ==
    Loaded /\ SortedTileset /\ SquareMap =>
        \A c \in MapCoords :
            AssigningLayers(c[1], c[2]) # {} =>
                road_map[c[1]][c[2]] =
                    MaskAt(Highest(AssigningLayers(c[1], c[2])), c[1], c[2])

\* C4: when the grid builder has finished, the cells at the recorded start
\* coordinate and at the recorded end coordinate hold 0b1111.  Stated for the
\* maps that load, are square and have a sorted tileset.
C4_StartEndFull ==
    Loaded /\ SortedTileset /\ SquareMap =>
        /\ IsSome(start_coord) =>
              road_map[Unwrap(start_coord).x][Unwrap(start_coord).y] = 15
        /\ IsSome(end_coord) =>
              road_map[Unwrap(end_coord).x][Unwrap(end_coord).y] = 15

\* a tile that the classifier takes for the start tile, and one it takes for
\* the end tile: the first of road, construction-point, start-point, end-point
\* that the tile has decides
IsStartTile(t) ==
    /\ t.props["road"] = "absent"
    /\ t.props["construction-point"] = "absent"
    /\ t.props["start-point"] # "absent"
IsEndTile(t) ==
    /\ t.props["road"] = "absent"
    /\ t.props["construction-point"] = "absent"
    /\ t.props["start-point"] = "absent"
    /\ t.props["end-point"] # "absent"

NoStartTile == \A i \in 1 .. Len(tileset) : ~IsStartTile(tileset[i])
NoEndTile == \A i \in 1 .. Len(tileset) : ~IsEndTile(tileset[i])

\* the tile id occurs in a cell of a layer
Placed(id) ==
    \E l \in 1 .. Len(layers) : \E c \in MapCoords : GidAt(l, c[1], c[2]) = id + 1

\* the start tile id, or the end tile id, occurs in no cell of any layer
StartNeverPlaced == IsSome(start_point) /\ ~Placed(Unwrap(start_point))
EndNeverPlaced == IsSome(end_point) /\ ~Placed(Unwrap(end_point))

\* C5: a load does not get past the classifier when the tileset has no start
\* tile or no end tile, and it neither runs gather_paths nor creates the Map
\* when the start or the end tile id occurs in no cell; the start and end tile
\* ids and coordinates are never defaults: they are ids of such tiles and
\* coordinates of cells that hold them.
C5_LoadFailsWithoutRoles ==
    /\ pc \in {"build", "gather", "create", "game"} => ~NoStartTile /\ ~NoEndTile
    /\ pc \in {"create", "game"} \/ IsSome(paths) \/ map_entity =>
          /\ ~NoStartTile /\ ~NoEndTile
          /\ ~StartNeverPlaced /\ ~EndNeverPlaced
    /\ IsSome(start_point) =>
          \E i \in 1 .. Len(tileset) :
              IsStartTile(tileset[i]) /\ tileset[i].id = Unwrap(start_point)
    /\ IsSome(end_point) =>
          \E i \in 1 .. Len(tileset) :
              IsEndTile(tileset[i]) /\ tileset[i].id = Unwrap(end_point)
    /\ IsSome(start_coord) =>
          \E l \in 1 .. Len(layers) :
              GidAt(l, Unwrap(start_coord).x, Unwrap(start_coord).y)
                  = Unwrap(start_point) + 1
    /\ IsSome(end_coord) =>
          \E l \in 1 .. Len(layers) :
              GidAt(l, Unwrap(end_coord).x, Unwrap(end_coord).y)
                  = Unwrap(end_point) + 1

\* C5: a load has panicked at the unwraps of line 162 on a map whose tileset
\* has both tiles and whose layers hold the end tile but not the start tile
C5_Witness ==
    /\ pc = "panicked"
    /\ panic = "unwrap on None"
    /\ ~NoStartTile /\ ~NoEndTile
    /\ StartNeverPlaced /\ ~EndNeverPlaced
    /\ ~IsSome(paths) /\ ~map_entity

\* C6: when the load fails, the GameState resource is still MainMenu, the
\* level buttons still exist, and no tile entity and no Map entity is in the
\* world.
C6_FailureKeepsMenu ==
    pc = "panicked" =>
        /\ game_state = "MainMenu"
        /\ levels # {}
        /\ tile_entities = 0
        /\ ~map_entity

\* C9: whatever the order of the tileset, a cell whose last replayed road,
\* start or end tile (the one of the lowest layer) is a tile of the road list
\* holds the mask of that tile.  Stated for the square maps that load.
C9_RoadsFoundInAnyOrder ==
    Loaded /\ SquareMap =>
        \A c \in MapCoords :
            /\ AssigningLayers(c[1], c[2]) # {}
            /\ GidAt(Lowest(AssigningLayers(c[1], c[2])), c[1], c[2]) - 1 \in RoadIds
            => /\ InRoadMap(road_map, c[1], c[2])
               /\ road_map[c[1]][c[2]] =
                     directions[GidAt(Lowest(AssigningLayers(c[1], c[2])), c[1], c[2]) - 1]

\* C10: whatever the width and the height of the map, no access to the grid
\* is out of bounds.
C10_NoIndexOutOfBounds ==
    panic # "index out of bounds"

====
